---- MODULE Spec2Model ----
(***************************************************************************)
(* A model of clog's entry point, src/src/main.c.                          *)
(*                                                                         *)
(* The process is modelled statement by statement: pc holds the source     *)
(* line about to execute.  The host launches the process with an argument  *)
(* list, main runs to a return, and the host may then launch it again.     *)
(* The host remembers one earlier invocation of its choice (what it was    *)
(* given and what it produced), so that any two invocations of a sequence  *)
(* can be compared.                                                        *)
(*                                                                         *)
(* Text is modelled as TLA+ strings, a stream's content as the             *)
(* concatenation of what was written to it.  Writes are recorded at the    *)
(* level of the C stream (stdout), in program order.                       *)
(***************************************************************************)
EXTENDS Naturals, Sequences, FiniteSets

\* Longest argument list explored (argc ranges over 0..MaxArgc).
MaxArgc == 4

\* The tokens an argument list is drawn from: empty text, and text that
\* looks like a flag (neither names an existing path).
Tokens == {"", "-f"}

\* What printf("%s") shows for a null pointer, and what argv[argc] is.
NullText == "(null)"

VARIABLES
    argv,        \* the argument list of the running process, argv[0] first
    pc,          \* the line of main.c about to execute, or "exited"
    input_dir,   \* the local input_dir: <<>> before line 8, <<text>> after
    output_dir,  \* the local output_dir: <<>> before line 9, <<text>> after
    io,          \* the library calls that produced output, in order
    status,      \* <<>> while running, <<code>> once main has returned
    reads,       \* the positions of argv the program has read
    branches,    \* how many times the test of line 4 was evaluated
    earlier      \* <<>>, or <<record>> of one earlier invocation, remembered

vars == <<argv, pc, input_dir, output_dir, io, status, reads, branches, earlier>>

\* int argc: the loader passes the length of the argument list.
argc == Len(argv)

\* Every argument list of at most MaxArgc tokens.
ArgLists == UNION {[1..n -> Tokens] : n \in 0..MaxArgc}

\* The literal of line 5.
UsageText == "Usage: clog <input dir> <output dir>"

\* The format strings of lines 10 and 11, as their pieces.
InputFmt == <<"input dir: ", "%s", "\n">>
OutputFmt == <<"output dir: ", "%s", "\n">>

\* The text a format produces for one string argument.
RECURSIVE Sprintf(_, _)
Sprintf(fmt, arg) ==
    IF fmt = <<>> THEN ""
    ELSE (IF Head(fmt) = "%s" THEN arg ELSE Head(fmt)) \o Sprintf(Tail(fmt), arg)

Puts_NoNewline(s) == [call |-> "puts", stream |-> "stdout", data |-> s]

Puts_Stderr(s) == [call |-> "puts", stream |-> "stderr", data |-> s \o "\n"]

\* puts(s): s and a newline, on stdout.
Puts(s) == [call |-> "puts", stream |-> "stdout", data |-> s \o "\n"]

\* printf(fmt, arg): the formatted text, on stdout.
Printf(fmt, arg) ==
    [call |-> "printf", stream |-> "stdout", data |-> Sprintf(fmt, arg)]

\* The content of a stream: everything written to it, in order.
RECURSIVE StreamOf(_, _)
StreamOf(log, s) ==
    IF log = <<>> THEN ""
    ELSE (IF Head(log).stream = s THEN Head(log).data ELSE "")
         \o StreamOf(Tail(log), s)

Stdout == StreamOf(io, "stdout")

\* The values a read of argv[i] can yield.  Inside the list it is the token;
\* argv[argc] is the null pointer; past it the read is undefined and may
\* yield anything.
ArgvRead(i) ==
    IF i < argc THEN {argv[i + 1]}
    ELSE IF i = argc THEN {NullText}
    ELSE Tokens \cup {NullText}

Fresh(args) ==
    /\ argv = args
    /\ pc = "L4"
    /\ input_dir = <<>>
    /\ output_dir = <<>>
    /\ io = <<>>
    /\ status = <<>>
    /\ reads = {}
    /\ branches = 0

\* The first launch: any argument list, no earlier invocation.
Init ==
    /\ \E args \in ArgLists : Fresh(args)
    /\ earlier = <<>>

\* What the host saw of the invocation that has just ended.
Observed == [argv |-> argv, out |-> Stdout, status |-> status]

\* The host remembers the invocation that has just ended, or keeps the one
\* it remembered before.
Remembered == {<<Observed>>} \cup (IF earlier = <<>> THEN {} ELSE {earlier})

Launch_KeepsOutput(args) ==
    /\ pc = "exited"
    /\ earlier' \in Remembered
    /\ argv' = args
    /\ pc' = "L4"
    /\ input_dir' = <<>>
    /\ output_dir' = <<>>
    /\ io' = io
    /\ status' = <<>>
    /\ reads' = {}
    /\ branches' = 0

\* A later launch: the host starts a new process, whose state is fresh.
Launch(args) ==
    /\ pc = "exited"
    /\ earlier' \in Remembered
    /\ argv' = args
    /\ pc' = "L4"
    /\ input_dir' = <<>>
    /\ output_dir' = <<>>
    /\ io' = <<>>
    /\ status' = <<>>
    /\ reads' = {}
    /\ branches' = 0

TestArgc_Spin ==
    /\ pc = "L4"
    /\ branches' = 1
    /\ pc' = IF argc < 3 THEN "L4" ELSE "L8"
    /\ UNCHANGED <<argv, input_dir, output_dir, io, status, reads, earlier>>

TestArgc_Validates ==
    /\ pc = "L4"
    /\ branches' = branches + 1
    /\ pc' = IF argc < 3 \/ argv[2] = "" \/ argv[3] = "-f" THEN "L5" ELSE "L8"
    /\ UNCHANGED <<argv, input_dir, output_dir, io, status, reads, earlier>>

TestArgc_OffByOne ==
    /\ pc = "L4"
    /\ branches' = branches + 1
    /\ pc' = IF argc < 2 THEN "L5" ELSE "L8"
    /\ UNCHANGED <<argv, input_dir, output_dir, io, status, reads, earlier>>

\* Line 4: if (argc < 3)
TestArgc ==
    /\ pc = "L4"
    /\ branches' = branches + 1
    /\ pc' = IF argc < 3 THEN "L5" ELSE "L8"
    /\ UNCHANGED <<argv, input_dir, output_dir, io, status, reads, earlier>>

PutsUsage_Argv0 ==
    /\ pc = "L5"
    /\ \E name \in ArgvRead(0) :
           io' = Append(io, Puts("Usage: " \o name \o " <input dir> <output dir>"))
    /\ pc' = "L6"
    /\ UNCHANGED <<argv, input_dir, output_dir, status, reads, branches, earlier>>

\* Line 5: puts("Usage: clog <input dir> <output dir>");
PutsUsage ==
    /\ pc = "L5"
    /\ io' = Append(io, Puts(UsageText))
    /\ pc' = "L6"
    /\ UNCHANGED <<argv, input_dir, output_dir, status, reads, branches, earlier>>

\* Line 6: return 1;
ReturnFailure ==
    /\ pc = "L6"
    /\ status' = <<1>>
    /\ pc' = "exited"
    /\ UNCHANGED <<argv, input_dir, output_dir, io, reads, branches, earlier>>

BindInputDir_Clobber ==
    /\ pc = "L8"
    /\ \E v \in ArgvRead(1) : input_dir' = <<v>>
    /\ argv' = [argv EXCEPT ![2] = NullText]
    /\ reads' = reads \cup {1}
    /\ pc' = "L9"
    /\ UNCHANGED <<output_dir, io, status, branches, earlier>>

\* Line 8: char *input_dir = argv[1];
BindInputDir ==
    /\ pc = "L8"
    /\ \E v \in ArgvRead(1) : input_dir' = <<v>>
    /\ reads' = reads \cup {1}
    /\ pc' = "L9"
    /\ UNCHANGED <<argv, output_dir, io, status, branches, earlier>>

BindOutputDir_Dup ==
    /\ pc = "L9"
    /\ \E v \in ArgvRead(1) : output_dir' = <<v>>
    /\ reads' = reads \cup {1}
    /\ pc' = "L10"
    /\ UNCHANGED <<argv, input_dir, io, status, branches, earlier>>

\* Line 9: char *output_dir = argv[2];
BindOutputDir ==
    /\ pc = "L9"
    /\ \E v \in ArgvRead(2) : output_dir' = <<v>>
    /\ reads' = reads \cup {2}
    /\ pc' = "L10"
    /\ UNCHANGED <<argv, input_dir, io, status, branches, earlier>>

PrintInputDir_SkipsNext ==
    /\ pc = "L10"
    /\ io' = Append(io, Printf(InputFmt, input_dir[1]))
    /\ pc' = "L12"
    /\ UNCHANGED <<argv, input_dir, output_dir, status, reads, branches, earlier>>

\* Line 10: printf("input dir: %s\n", input_dir);
PrintInputDir ==
    /\ pc = "L10"
    /\ io' = Append(io, Printf(InputFmt, input_dir[1]))
    /\ pc' = "L11"
    /\ UNCHANGED <<argv, input_dir, output_dir, status, reads, branches, earlier>>

\* Line 11: printf("output dir: %s\n", output_dir);
PrintOutputDir ==
    /\ pc = "L11"
    /\ io' = Append(io, Printf(OutputFmt, output_dir[1]))
    /\ pc' = "L12"
    /\ UNCHANGED <<argv, input_dir, output_dir, status, reads, branches, earlier>>

\* Line 12: return 0;
ReturnSuccess ==
    /\ pc = "L12"
    /\ status' = <<0>>
    /\ pc' = "exited"
    /\ UNCHANGED <<argv, input_dir, output_dir, io, reads, branches, earlier>>

\* One statement of main.
Step ==
    \/ TestArgc
    \/ PutsUsage
    \/ ReturnFailure
    \/ BindInputDir
    \/ BindOutputDir
    \/ PrintInputDir
    \/ PrintOutputDir
    \/ ReturnSuccess

Relaunch == \E args \in ArgLists : Launch(args)

Next == Step \/ Relaunch

\* Invocation after invocation.
Spec == Init /\ [][Next]_vars

\* One invocation, which the host keeps scheduling until main returns.
OneRun == Init /\ [][Step]_vars /\ WF_vars(Step)

(***************************************************************************)
(* The properties.                                                         *)
(***************************************************************************)

Exited == pc = "exited"

\* Whether a usage line, or an echo line, has been emitted.
UsageEmitted == \E i \in DOMAIN io : io[i].call = "puts"
EchoEmitted == \E i \in DOMAIN io : io[i].call = "printf"

\* C1: an invocation with at most two tokens (zero or one positional
\* argument) ends with exactly the usage line and a newline on standard
\* output, and exit status 1.
C1_UsageAndStatusOne ==
    (Exited /\ Len(argv) <= 2) =>
        /\ Stdout = "Usage: clog <input dir> <output dir>\n"
        /\ status = <<1>>

C1_Witness == Exited /\ Len(argv) = 2 /\ status = <<1>> /\ Len(io) = 1

\* C2: an invocation with two or more positional arguments ends with
\* exactly the two lines "input dir: <token 1>" and "output dir: <token 2>"
\* on standard output, and exit status 0, whatever follows token 2.
C2_EchoAndStatusZero ==
    (Exited /\ Len(argv) >= 3) =>
        /\ Stdout = "input dir: " \o argv[2] \o "\n"
                    \o "output dir: " \o argv[3] \o "\n"
        /\ status = <<0>>

C2_Witness ==
    Exited /\ Len(argv) = 4 /\ argv[2] # argv[3] /\ status = <<0>> /\ Len(io) = 2

\* C3: everything the program emits, on either path, goes to standard
\* output through puts or printf: nothing reaches the error stream, and no
\* other call with an outside effect is made.
C3_OnlyStdout ==
    /\ \A i \in DOMAIN io :
           io[i].stream = "stdout" /\ io[i].call \in {"puts", "printf"}
    /\ StreamOf(io, "stderr") = ""

C3_Witness ==
    /\ earlier # <<>>
    /\ earlier[1].status = <<1>>
    /\ Exited /\ status = <<0>> /\ Len(io) = 2

\* C4: an invocation with fewer than two positional arguments always
\* terminates, and has then produced the usage line and status 1; every
\* invocation terminates, having evaluated the test on the argument count
\* exactly once.
C4_MalformedTerminates ==
    /\ (pc = "L4" /\ Len(argv) < 3) ~>
           (Exited /\ status = <<1>>
            /\ Stdout = "Usage: clog <input dir> <output dir>\n")
    /\ (pc = "L4") ~> Exited
    /\ [](Exited => branches = 1)

C4_Witness == Exited /\ Len(argv) < 3 /\ branches = 1 /\ UsageEmitted

\* C5: an invocation given the same argument list as an earlier one of
\* the sequence ends with the same standard output and the same status.
C5_SameArgsSameOutcome ==
    (earlier # <<>> /\ Exited /\ earlier[1].argv = argv) =>
        /\ earlier[1].out = Stdout
        /\ earlier[1].status = status

C5_Witness ==
    /\ earlier # <<>> /\ Exited
    /\ earlier[1].argv = argv
    /\ Len(argv) >= 3
    /\ Stdout # ""

\* C6: with at least two positional arguments the program echoes them
\* unchanged and exits 0 whatever their content; the usage path and
\* status 1 are reached only when the argument count is too small.
C6_NoValidation ==
    /\ (Exited /\ Len(argv) >= 3) =>
           /\ status = <<0>>
           /\ ~UsageEmitted
           /\ Len(io) = 2
           /\ io[1].data = "input dir: " \o argv[2] \o "\n"
           /\ io[2].data = "output dir: " \o argv[3] \o "\n"
    /\ (pc \in {"L5", "L6"} \/ UsageEmitted \/ status = <<1>>) => Len(argv) < 3

C6_Witness ==
    Exited /\ Len(argv) >= 3 /\ argv[2] = "" /\ argv[3] = "-f" /\ status = <<0>>

\* C7: on the success path the input-dir line is the first thing emitted,
\* the output-dir line the second, and the process has terminated only
\* once both are out, with status 0.
C7_InputThenOutputThenExit ==
    Len(argv) >= 3 =>
        /\ Len(io) <= 2
        /\ Len(io) >= 1 => io[1].data = "input dir: " \o argv[2] \o "\n"
        /\ Len(io) >= 2 => io[2].data = "output dir: " \o argv[3] \o "\n"
        /\ status # <<>> => (status = <<0>> /\ Len(io) = 2)

C7_Witness == pc = "L11" /\ Len(io) = 1 /\ status = <<>>

\* C8: no statement of the program changes the argument list, and the
\* program reads no position of it other than 1 and 2.
C8_ArgvImmutable ==
    /\ [][pc # "exited" => argv' = argv]_vars
    /\ [](reads \subseteq {1, 2})

C8_Witness == Exited /\ reads = {1, 2} /\ status = <<0>>

\* C9: every run ends with status 0 if the list has at least three tokens
\* and with status 1 otherwise (the empty list included); the usage line
\* and an echo line never appear in the same run; argv is read only at
\* positions 1 and 2, and only when the list has at least three tokens.
C9_TwoOutcomes ==
    /\ status \in {<<>>, <<0>>, <<1>>}
    /\ Exited => /\ status = <<0>> <=> Len(argv) >= 3
                 /\ status = <<1>> <=> Len(argv) < 3
    /\ ~(UsageEmitted /\ EchoEmitted)
    /\ \A i \in reads : i \in {1, 2} /\ i < Len(argv) /\ Len(argv) >= 3

C9_Witness == Exited /\ Len(argv) = 0 /\ status = <<1>>

\* Two argument lists that agree on having at least three tokens and, if
\* they have, on the tokens at positions 1 and 2.
Agree(a, b) ==
    /\ (Len(a) >= 3) = (Len(b) >= 3)
    /\ Len(a) >= 3 => (a[2] = b[2] /\ a[3] = b[3])

\* C10: two invocations whose argument lists agree in that way end with
\* the same standard output and status, whatever the invocation name and
\* the tokens past position 2; the usage line names the program "clog"
\* whatever the invocation name.
C10_NameAndExtrasIgnored ==
    /\ (earlier # <<>> /\ Exited /\ Agree(earlier[1].argv, argv)) =>
           /\ earlier[1].out = Stdout
           /\ earlier[1].status = status
    /\ (Exited /\ Len(argv) \in {1, 2}) =>
           io = <<Puts("Usage: clog <input dir> <output dir>")>>

C10_Witness ==
    /\ earlier # <<>> /\ Exited
    /\ Agree(earlier[1].argv, argv)
    /\ Len(earlier[1].argv) = 3 /\ Len(argv) = 4
    /\ earlier[1].argv[1] # argv[1]
    /\ status = <<0>>

====
